---- MODULE Spec2Model ----
(***************************************************************************)
(* Model of the conversational-turn pipeline of Character-AI-backend.      *)
(*                                                                         *)
(* Two implementations of sendMessage live in the repository and both are  *)
(* modelled over the same chat_messages table:                             *)
(*   - SpecMirror: sendMessage of src/src/services/messageBuilder.js       *)
(*     (lines 473-631): order_index assignment, two independent inserts,   *)
(*     best-effort mirroring into the linked session;                      *)
(*   - Spec: sendMessage of src/src/services/chat.service.js (lines        *)
(*     249-803): duplicate short-circuit, idempotency key, retry loop,     *)
(*     emergency retry, strict re-prompts, create_chat_messages RPC.       *)
(* Every await of the source is an interleaving point: one action per      *)
(* awaited step, the process position is pc[p], its locals are rq[p].      *)
(***************************************************************************)
EXTENDS Integers, Sequences, FiniteSets, TLC

\* ---------------------------------------------------------------- bounds
\* total number of sendMessage calls issued in one behaviour
MaxRequests == 2
\* total number of injected failures (query, insert, completion) in one behaviour
MaxFaults == 1

\* ------------------------------------------------------- fixed universe
Procs == {"p1", "p2"}
Users == {"u1", "u2"}
\* rows of chat_sessions; A and B are the reciprocal pair createSession
\* makes, C is a session of its own that nobody sends to
Sessions == {"A", "B", "C"}
\* session ids a caller may pass; X is no row of chat_sessions
SessionIds == Sessions \cup {"X"}
\* (sessionId, userId) of the calls: the two owners, a user who does not own
\* the session, a session that does not exist
Callers == {<<"A", "u1">>, <<"B", "u2">>, <<"A", "u2">>, <<"X", "u1">>}
NoSession == "none"
NULL == -1

SessionOwner == [s \in Sessions |-> IF s = "A" THEN "u1" ELSE "u2"]

\* ------------------------------------------------------------ texts
\* A string is the prefix of length len of the infinite text named body,
\* in whitespace layout ws (0: single spaces, 1: some run of whitespace
\* inside is longer than one space).  Empty is the empty string.
Empty == [body |-> "", len |-> 0, ws |-> 0]

Min(a, b) == IF a < b THEN a ELSE b

\* String.prototype.slice(0, n)
Slice(t, n) == IF t.len <= n THEN t ELSE [t EXCEPT !.len = n]

\* String.prototype.trim(): layout 2 is a string with leading or trailing
\* whitespace and single spaces inside
Trim(t) == IF t.ws = 2 THEN [t EXCEPT !.ws = 0] ELSE t

\* content.replace(/\s+/g, ' ').trim()
Normalize(t) == [t EXCEPT !.ws = 0]

Txt(b, n) == [body |-> b, len |-> n, ws |-> 0]

\* `MIRROR_LINK:${id}` as written by createSession
MirrorLinkText(s) == [body |-> "MIRROR_LINK", len |-> 48, ws |-> 0, target |-> s]

\* content.match(/^MIRROR_LINK:([0-9a-fA-F-]{36})$/)
ParseMirrorLink(c) ==
    IF c.body = "MIRROR_LINK" /\ "target" \in DOMAIN c THEN c.target ELSE NoSession

VARIABLES
    msgs,         \* chat_messages, per session_id, ordered by (created_at, id)
    touched,      \* chat_sessions.updated_at: the requests that set it
    pc,           \* position of each sendMessage invocation
    rq,           \* locals of each sendMessage invocation
    nreq,         \* number of calls issued so far
    faults,       \* number of failures injected so far
    idem,         \* keys held by the Redis server, with the request that set them
    isConnected,  \* RedisClient.isConnected
    recent,       \* per session: the turn that returned within the current TTL window
    nsfw,         \* characters.nsfw_enabled of the character of the two sessions
    gq,           \* requestQueue: users of the wrappers waiting in the global queue
    uq,           \* requestQueue: per user, the requests in each stage
    timeouts,     \* requestQueue: number of p-queue timeouts so far
    pin,          \* prompt: the inputs of one sendMessage call of chat.service.js
    tryMessages,  \* prompt: the list built before the retry loop
    sent,         \* prompt: the list handed to chatCompletion last
    pstage,       \* prompt: the call site that sent it
    deleted,      \* rows of chat_sessions that have been deleted
    life,         \* the clear and delete calls made so far, and the last of them
    fb            \* chatCompletion: the pass over the candidate models

queueVars == <<gq, uq, timeouts>>
promptVars == <<pin, tryMessages, sent, pstage>>

vars == <<msgs, touched, pc, rq, nreq, faults, idem, isConnected, recent, nsfw,
          gq, uq, timeouts, pin, tryMessages, sent, pstage, deleted, life, fb>>

\* a row of chat_messages; req is the number of the request that wrote it.
\* msgs[s] holds the rows with session_id = s in the order of their insertion
\* (every query of the pipeline filters on session_id).
Row(r, c, oi, mf, q) ==
    [role |-> r, content |-> c, order_index |-> oi, mirrored_from |-> mf, req |-> q]

\* the two system rows createSession inserts for a mirrored pair
InitMsgs ==
    [s \in Sessions |->
        IF s = "C" THEN << >>
        ELSE << Row("system", MirrorLinkText(IF s = "A" THEN "B" ELSE "A"),
                    NULL, NoSession, 0) >>]

Insert(s, row) == [msgs EXCEPT ![s] = Append(@, row)]

\* select order_index ... order by order_index desc nulls last limit 1,
\* then Number(ordRows?.[0]?.order_index ?? 0)
BaseIndex(s) ==
    LET idx == {msgs[s][i].order_index :
                  i \in {j \in 1..Len(msgs[s]) : msgs[s][j].order_index # NULL}}
    IN IF idx = {} THEN 0 ELSE CHOOSE m \in idx : \A k \in idx : k <= m

\* getMirrorSessionId: first system row of the session matching MIRROR_LINK:%
getMirrorSessionId(s) ==
    LET sys == {i \in 1..Len(msgs[s]) :
                  msgs[s][i].role = "system" /\ msgs[s][i].content.body = "MIRROR_LINK"}
    IN IF sys = {} THEN NoSession
       ELSE ParseMirrorLink(msgs[s][CHOOSE i \in sys : \A j \in sys : i <= j].content)

\* getSession without the .eq('user_id', userId) filter
getSession_AnyUser(s, u) == s \in Sessions \ deleted

\* getSession: .eq('id', sessionId).eq('user_id', userId).single()
getSession(s, u) == s \in Sessions \ deleted /\ SessionOwner[s] = u

IdleRq ==
    [id |-> 0, sid |-> NoSession, uid |-> "u1", text |-> Empty, userText |-> Empty,
     nextUserIndex |-> NULL, nextAssistantIndex |-> NULL,
     aiResponse |-> Empty, mirrorSessionId |-> NoSession,
     mirrorIndex |-> NULL,
     savedUser |-> FALSE, savedAssistant |-> FALSE,
     mirroredUser |-> FALSE, mirroredAssistant |-> FALSE,
     mirrorFault |-> FALSE, insertFault |-> FALSE,
     lastTwo |-> << >>, userTurns |-> 0, setOk |-> FALSE, plan |-> "free",
     lastAssistantSet |-> {}, previousOutputs |-> {}, attempt |-> 0,
     calls |-> 0, emergencyCalls |-> 0, loopEnd |-> "none",
     lastCall |-> "none", allFailed |-> FALSE,
     inTTL |-> FALSE, dupOf |-> 0, dupReply |-> Empty, overlapOf |-> 0,
     status |-> "none", response |-> Empty, error |-> "none"]

\* the calls of the chat service that are followed: the owner of A (on the
\* free plan), a user who does not own A, and a session id that does not exist
ChatCallers == {<<"A", "u1">>, <<"A", "u2">>, <<"X", "u1">>}

\* texts a client submits to the messageBuilder.js pipeline
MirrorTexts == {Txt("t1", 2500)}
\* what the completion service may answer there (before .trim())
MirrorReplies == {Txt("r1", 20)}

NoTurn == [id |-> 0, text |-> Empty, response |-> Empty]

\* no request has been handed to enqueueRequest yet
NoRequests ==
    [waiting |-> 0, running |-> 0, abandonedWaiting |-> 0, abandonedRunning |-> 0,
     loose |-> 0, enqueued |-> 0]

QueueIdle ==
    /\ gq = << >>
    /\ uq = [u \in Users |-> NoRequests]
    /\ timeouts = 0

NoInput == [text |-> Empty, userTurns |-> 0, plan |-> "free", history |-> << >>]

PromptIdle ==
    /\ pin = NoInput
    /\ tryMessages = << >>
    /\ sent = << >>
    /\ pstage = "none"

InitStore ==
    /\ msgs = InitMsgs
    /\ touched = [s \in Sessions |-> {}]
    /\ pc = [p \in Procs |-> "idle"]
    /\ rq = [p \in Procs |-> IdleRq]
    /\ nreq = 0
    /\ faults = 0
    /\ idem = {}
    /\ isConnected = FALSE
    /\ recent = [s \in Sessions |-> NoTurn]
    /\ nsfw \in BOOLEAN

NoError == [code |-> "none", msg |-> "none"]

\* chatCompletion has not been called
NoCall ==
    [preferred |-> "none", fallbacks |-> << >>, candidates |-> << >>, tried |-> << >>,
     errors |-> << >>, outcome |-> "none", thrown |-> NoError]

\* no clear or delete call has been made
NoLife == [calls |-> 0, op |-> "none", sid |-> NoSession, uid |-> "u1", result |-> "none"]

Init == InitStore /\ QueueIdle /\ PromptIdle /\ deleted = {} /\ life = NoLife /\ fb = NoCall

Finished(p) == pc[p] \in {"idle", "done", "failed"}

\* the processes are interchangeable: a fresh one starts only when no fresh
\* one precedes it
FirstIdle(p) == pc[p] = "idle" => (p = "p1" \/ pc["p1"] # "idle")

\* ------------------------------------------------------------------
\* sendMessage of messageBuilder.js
\* ------------------------------------------------------------------

\* an awaited call either goes well or, while the budget lasts, goes wrong
Faults(n) ==
    /\ faults + n <= MaxFaults
    /\ faults' = faults + n

Fault(bad) == Faults(IF bad THEN 1 ELSE 0)

\* an insert into chat_messages: session_id references chat_sessions(id), so
\* with the id of a deleted session it fails whatever else happens
InsertOutcome(s, ok) ==
    /\ s \in deleted => ~ok
    /\ Fault(~ok /\ s \notin deleted)

\* lines 473-485: getSession, buildMessagesForSession (same ownership check,
\* reads only), userText = String(message ?? '').slice(0, 2000)
smGetSession(p) ==
    /\ Finished(p)
    /\ FirstIdle(p)
    /\ nreq < MaxRequests
    /\ \E c \in Callers, t \in MirrorTexts :
         LET s == c[1]
             u == c[2]
             r0 == [IdleRq EXCEPT !.id = nreq + 1, !.sid = s, !.uid = u, !.text = t,
                                  !.userText = Slice(t, 2000)]
         IN IF getSession(s, u)
            THEN /\ rq' = [rq EXCEPT ![p] = r0]
                 /\ pc' = [pc EXCEPT ![p] = "ord"]
            ELSE /\ rq' = [rq EXCEPT ![p] = [r0 EXCEPT !.status = "error",
                                 !.error = "Session not found or access denied"]]
                 /\ pc' = [pc EXCEPT ![p] = "failed"]
    /\ nreq' = nreq + 1
    /\ UNCHANGED <<msgs, touched, faults, idem, isConnected, recent, nsfw, deleted, life, fb, queueVars, promptVars>>

\* lines 487-502: read the current maximum, user = max+1, assistant = max+2.
\* The query may answer (ok), return {data: null, error} (base 0) or throw
\* (indices stay null).
smOrderIndex(p) ==
    /\ pc[p] = "ord"
    /\ \E out \in {"ok", "error", "throw"} :
         LET base == IF out = "ok" THEN BaseIndex(rq[p].sid) ELSE 0
         IN /\ Fault(out # "ok")
            /\ rq' = [rq EXCEPT ![p] =
                     IF out = "throw" THEN @
                     ELSE [@ EXCEPT !.nextUserIndex = base + 1,
                                    !.nextAssistantIndex = base + 2]]
    /\ pc' = [pc EXCEPT ![p] = "completion"]
    /\ UNCHANGED <<msgs, touched, nreq, idem, isConnected, recent, nsfw, deleted, life, fb, queueVars, promptVars>>

\* lines 508-530: resp = await chatCompletion(messages), content trimmed,
\* '' when absent; a rejection leaves sendMessage through the outer catch.
\* Then the mirror lookup, which yields null on any failure.  The completion
\* call touches no shared state, so the two awaits are one step.
smChatCompletion(p) ==
    /\ pc[p] = "completion"
    /\ \/ \E c \in MirrorReplies \cup {Empty}, ok \in BOOLEAN :
            /\ Faults((IF c = Empty THEN 1 ELSE 0) + (IF ok THEN 0 ELSE 1))
            /\ rq' = [rq EXCEPT ![p].aiResponse = c,
                                ![p].mirrorSessionId =
                                    IF ok THEN getMirrorSessionId(rq[p].sid) ELSE NoSession,
                                ![p].mirrorFault = ~ok]
            /\ pc' = [pc EXCEPT ![p] = "insertUser"]
       \/ /\ Fault(TRUE)
          /\ rq' = [rq EXCEPT ![p] = [IdleRq EXCEPT !.id = rq[p].id, !.sid = rq[p].sid,
                        !.uid = rq[p].uid, !.text = rq[p].text,
                        !.status = "error", !.error = "completion failed"]]
          /\ pc' = [pc EXCEPT ![p] = "failed"]
    /\ UNCHANGED <<msgs, touched, nreq, idem, isConnected, recent, nsfw, deleted, life, fb, queueVars, promptVars>>

\* lines 535-543: insert of the user row; userErr is logged only
smInsertUser(p) ==
    /\ pc[p] = "insertUser"
    /\ IF rq[p].userText = Empty
       THEN /\ pc' = [pc EXCEPT ![p] = "insertAssistant"]
            /\ UNCHANGED <<msgs, rq, faults>>
       ELSE \E ok \in BOOLEAN :
            /\ InsertOutcome(rq[p].sid, ok)
            /\ IF ok
               THEN /\ msgs' = Insert(rq[p].sid, Row("user", rq[p].userText,
                                                rq[p].nextUserIndex, NoSession, rq[p].id))
                    /\ rq' = [rq EXCEPT ![p].savedUser = TRUE]
                    /\ pc' = [pc EXCEPT ![p] =
                          IF rq[p].mirrorSessionId # NoSession THEN "mirrorUserIndex"
                          ELSE "insertAssistant"]
               ELSE /\ rq' = [rq EXCEPT ![p].insertFault = TRUE]
                    /\ pc' = [pc EXCEPT ![p] = "insertAssistant"]
                    /\ UNCHANGED msgs
    /\ UNCHANGED <<touched, nreq, idem, isConnected, recent, nsfw, deleted, life, fb, queueVars, promptVars>>

\* lines 547-557 and 580-590: mirror index = base of the mirror session + 1;
\* the inner catch leaves it null
MirrorIndexStep(p, from, to) ==
    /\ pc[p] = from
    /\ \E out \in {"ok", "error", "throw"} :
         /\ Fault(out # "ok")
         /\ rq' = [rq EXCEPT ![p].mirrorIndex =
                      IF out = "ok" THEN BaseIndex(rq[p].mirrorSessionId) + 1
                      ELSE IF out = "error" THEN 1 ELSE NULL,
                    ![p].mirrorFault = @ \/ out # "ok"]
    /\ pc' = [pc EXCEPT ![p] = to]
    /\ UNCHANGED <<msgs, touched, nreq, idem, isConnected, recent, nsfw, deleted, life, fb, queueVars, promptVars>>

smMirrorUserIndex(p) == MirrorIndexStep(p, "mirrorUserIndex", "mirrorUserInsert")

\* MirrorInsertStep with the enclosing try/catch removed: a failed mirror
\* insert ends the request
MirrorInsertStep_Unguarded(p, from, to, role, content) ==
    /\ pc[p] = from
    /\ \E ok \in BOOLEAN :
         /\ InsertOutcome(rq[p].mirrorSessionId, ok)
         /\ IF ok
            THEN /\ msgs' = Insert(rq[p].mirrorSessionId,
                                Row(role, content, rq[p].mirrorIndex, rq[p].sid, rq[p].id))
                 /\ rq' = [rq EXCEPT ![p].mirroredUser = @ \/ role = "user",
                                     ![p].mirroredAssistant = @ \/ role = "assistant"]
                 /\ pc' = [pc EXCEPT ![p] = to]
            ELSE /\ rq' = [rq EXCEPT ![p].mirrorFault = TRUE, ![p].status = "error",
                                     ![p].error = "mirror insert failed"]
                 /\ pc' = [pc EXCEPT ![p] = "failed"]
                 /\ UNCHANGED msgs
    /\ UNCHANGED <<touched, nreq, idem, isConnected, recent, nsfw, deleted, life, fb, queueVars, promptVars>>

\* insert into the mirror session with metadata {mirrored_from}; a failure is
\* swallowed by the enclosing try
MirrorInsertStep(p, from, to, role, content) ==
    /\ pc[p] = from
    /\ \E ok \in BOOLEAN :
         /\ InsertOutcome(rq[p].mirrorSessionId, ok)
         /\ IF ok
            THEN /\ msgs' = Insert(rq[p].mirrorSessionId,
                                Row(role, content, rq[p].mirrorIndex, rq[p].sid, rq[p].id))
                 /\ rq' = [rq EXCEPT ![p].mirroredUser = @ \/ role = "user",
                                     ![p].mirroredAssistant = @ \/ role = "assistant"]
            ELSE /\ rq' = [rq EXCEPT ![p].mirrorFault = TRUE]
                 /\ UNCHANGED msgs
    /\ pc' = [pc EXCEPT ![p] = to]
    /\ UNCHANGED <<touched, nreq, idem, isConnected, recent, nsfw, deleted, life, fb, queueVars, promptVars>>

\* smMirrorUserInsert writing the raw message instead of the capped userText
smMirrorUserInsert_RawText(p) ==
    MirrorInsertStep(p, "mirrorUserInsert", "insertAssistant", "user", rq[p].text)

\* lines 558-563
smMirrorUserInsert(p) ==
    MirrorInsertStep(p, "mirrorUserInsert", "insertAssistant", "user", rq[p].userText)

\* lines 568-576: insert of the assistant row; aiErr is logged only
smInsertAssistant(p) ==
    /\ pc[p] = "insertAssistant"
    /\ IF rq[p].aiResponse = Empty
       THEN /\ pc' = [pc EXCEPT ![p] = "touch"]
            /\ UNCHANGED <<msgs, rq, faults>>
       ELSE \E ok \in BOOLEAN :
            /\ InsertOutcome(rq[p].sid, ok)
            /\ IF ok
               THEN /\ msgs' = Insert(rq[p].sid, Row("assistant", rq[p].aiResponse,
                                                rq[p].nextAssistantIndex, NoSession, rq[p].id))
                    /\ rq' = [rq EXCEPT ![p].savedAssistant = TRUE]
                    /\ pc' = [pc EXCEPT ![p] =
                          IF rq[p].mirrorSessionId # NoSession THEN "mirrorAssistantIndex"
                          ELSE "touch"]
               ELSE /\ rq' = [rq EXCEPT ![p].insertFault = TRUE]
                    /\ pc' = [pc EXCEPT ![p] = "touch"]
                    /\ UNCHANGED msgs
    /\ UNCHANGED <<touched, nreq, idem, isConnected, recent, nsfw, deleted, life, fb, queueVars, promptVars>>

smMirrorAssistantIndex(p) ==
    MirrorIndexStep(p, "mirrorAssistantIndex", "mirrorAssistantInsert")

\* lines 591-596
smMirrorAssistantInsert(p) ==
    MirrorInsertStep(p, "mirrorAssistantInsert", "touch", "assistant", rq[p].aiResponse)

\* smTouchReturn with the update of chat_sessions not filtered on the id
smTouchReturn_AllSessions(p) ==
    /\ pc[p] = "touch"
    /\ \E ok1 \in BOOLEAN, ok2 \in BOOLEAN :
         LET m == rq[p].mirrorSessionId
         IN /\ (m = NoSession => ok2)
            /\ Faults((IF ok1 THEN 0 ELSE 1) + (IF ok2 THEN 0 ELSE 1))
            /\ touched' = [x \in Sessions |->
                              IF x \in deleted THEN touched[x] ELSE touched[x] \cup {rq[p].id}]
            /\ rq' = [rq EXCEPT ![p].status = "ok",
                                ![p].response = rq[p].aiResponse,
                                ![p].mirrorFault = @ \/ ~ok2,
                                ![p].nextUserIndex = NULL,
                                ![p].nextAssistantIndex = NULL,
                                ![p].mirrorIndex = NULL]
    /\ pc' = [pc EXCEPT ![p] = "done"]
    /\ UNCHANGED <<msgs, nreq, idem, isConnected, recent, nsfw, deleted, life, fb, queueVars, promptVars>>

\* lines 601-625: touch the session, touch the mirror session (results
\* ignored), return the reply with the persisted flags
smTouchReturn(p) ==
    /\ pc[p] = "touch"
    /\ \E ok1 \in BOOLEAN, ok2 \in BOOLEAN :
         LET s == rq[p].sid
             m == rq[p].mirrorSessionId
             t1 == IF ok1 /\ s \notin deleted
                   THEN [touched EXCEPT ![s] = @ \cup {rq[p].id}] ELSE touched
             t2 == IF m # NoSession /\ ok2 /\ m \notin deleted
                   THEN [t1 EXCEPT ![m] = @ \cup {rq[p].id}] ELSE t1
         IN /\ (m = NoSession => ok2)
            /\ Faults((IF ok1 THEN 0 ELSE 1) + (IF ok2 THEN 0 ELSE 1))
            /\ touched' = t2
            /\ rq' = [rq EXCEPT ![p].status = "ok",
                                ![p].response = rq[p].aiResponse,
                                ![p].mirrorFault = @ \/ ~ok2,
                                ![p].nextUserIndex = NULL,
                                ![p].nextAssistantIndex = NULL,
                                ![p].mirrorIndex = NULL]
    /\ pc' = [pc EXCEPT ![p] = "done"]
    /\ UNCHANGED <<msgs, nreq, idem, isConnected, recent, nsfw, deleted, life, fb, queueVars, promptVars>>

NextMirror ==
    \E p \in Procs :
        \/ smGetSession(p)
        \/ smOrderIndex(p)
        \/ smChatCompletion(p)
        \/ smInsertUser(p)
        \/ smMirrorUserIndex(p)
        \/ smMirrorUserInsert(p)
        \/ smInsertAssistant(p)
        \/ smMirrorAssistantIndex(p)
        \/ smMirrorAssistantInsert(p)
        \/ smTouchReturn(p)

\* the messageBuilder.js pipeline uses neither the cache nor the guards
InitMirror == Init /\ ~nsfw

SpecMirror == InitMirror /\ [][NextMirror]_vars

\* ------------------------------------------------------------------
\* sendMessage of chat.service.js
\* ------------------------------------------------------------------
maxAttempts == 3
minTurnsForExplicit == 8

\* user_profiles.plan
UserPlan == [u \in Users |-> IF u = "u1" THEN "free" ELSE "pro"]

isPaidPlan(plan) == plan \in {"pro", "paid", "premium", "plus"}

\* texts a client submits: t1 a short request, t2 a long flirtatious one
\* whose last sentence has no word of more than three letters
ChatTexts == {Txt("t1", 15), Txt("t2", 1500)}

\* candidate replies of the completion service: r1 three sentences on the
\* topic (60 words), also with a doubled space; r2 a one-liner off the topic
\* (8 words); r3 five sentences on the topic (250 words, 1500 characters)
ChatReplies ==
    {Txt("r1", 300), [Txt("r1", 300) EXCEPT !.ws = 1], Txt("r2", 40), Txt("r3", 1500)}

\* extractTopic(text).keywords: the words of more than three letters of
\* the last sentence, stop words left out
Keywords(t) == IF t.body = "t1" THEN {"story"} ELSE {}

\* detectFlirt(text)
detectFlirt(t) == t.body = "t2"

\* normalized.split(/(?<=[.!?])\s+/).filter(Boolean).length
SentenceCount(r) ==
    CASE r.body = "r1" -> 3 [] r.body = "r2" -> 1 [] r.body = "r3" -> 5 [] OTHER -> 0

\* (aiResponse.trim().match(/\S+/g) || []).length
WordCount(r) ==
    CASE r.body = "r1" -> 60 [] r.body = "r2" -> 8 [] r.body = "r3" -> 250 [] OTHER -> 0

\* topic.keywords.some(k => firstLower.includes(k)) / lower.includes(k)
HasTopicFirst(r, kws) == kws # {} /\ r.body \in {"r1", "r3"}
HasTopicAny(r, kws) == kws # {} /\ r.body \in {"r1", "r3"}

\* shiftPhrases.some(p => lower.includes(p)): the one-liner says "anyway"
HasShift(r) == r.body = "r2"

\* /[\r\n]/.test(aiResponse): layout 3 is a string with a line break
HasLineBreak(r) == r.ws = 3

\* lines 584-590: the free-plan format test (no reply of the pool has a
\* list marker)
FormatViolated(r) ==
    \/ HasLineBreak(r)
    \/ SentenceCount(r) < 3 \/ SentenceCount(r) > 4
    \/ WordCount(r) < 40 \/ WordCount(r) > 90

IsAssistant(role) == role \in {"assistant", "ai"}

\* select ... order by created_at desc, id desc limit 2 (newest first)
LastTwo(s) ==
    LET n == Len(msgs[s])
        Proj(i) == [role |-> msgs[s][i].role, content |-> msgs[s][i].content]
    IN IF n = 0 THEN << >>
       ELSE IF n = 1 THEN << Proj(1) >>
       ELSE << Proj(n), Proj(n - 1) >>

\* select count ... eq sender_type 'user'
UserTurnCount(s) == Cardinality({i \in 1..Len(msgs[s]) : msgs[s][i].role = "user"})

\* lines 420-437: the normalized contents of the last five assistant rows
RecentAssistantSet(s) ==
    LET as == {i \in 1..Len(msgs[s]) : IsAssistant(msgs[s][i].role)}
        last5 == {i \in as : Cardinality({j \in as : j > i}) < 5}
    IN {Normalize(msgs[s][i].content) : i \in last5}

\* the test with the two rows taken the other way round
IsDuplicateSend_LatestUser(lastTwo, message) ==
    /\ Len(lastTwo) >= 2
    /\ lastTwo[1].role = "user"
    /\ Trim(lastTwo[1].content) = Trim(message)
    /\ lastTwo[2].role = "assistant"

\* lines 267-275: previous user row equals the incoming text, latest row is
\* an assistant row
IsDuplicateSend(lastTwo, message) ==
    /\ Len(lastTwo) >= 2
    /\ lastTwo[2].role = "user"
    /\ Trim(lastTwo[2].content) = Trim(message)
    /\ lastTwo[1].role = "assistant"

\* line 415
lastAssistantContent(lastTwo) ==
    IF Len(lastTwo) >= 1 /\ IsAssistant(lastTwo[1].role) THEN Trim(lastTwo[1].content)
    ELSE Empty

\* lines 508-546: the validation gate of one attempt; TRUE when the
\* candidate is rejected and the loop regenerates
Rejected(r, content) ==
    LET normalized == Normalize(content)
        lastC == lastAssistantContent(r.lastTwo)
        early == nsfw /\ (detectFlirt(r.userText) \/ r.userTurns < minTurnsForExplicit)
        kws == Keywords(r.userText)
    IN \/ (lastC # Empty /\ normalized = Normalize(lastC))
       \/ normalized \in r.previousOutputs
       \/ normalized \in r.lastAssistantSet
       \/ /\ early
          /\ kws # {}
          /\ \/ ~HasTopicFirst(normalized, kws)
             \/ (HasShift(normalized) /\ ~HasTopicAny(normalized, kws))
             \/ SentenceCount(normalized) < 2
       \/ (nsfw /\ ~early /\ SentenceCount(normalized) < 3)

\* the locals of the retry loop are dead once the loop is left
LoopExit(r) ==
    [r EXCEPT !.lastTwo = << >>, !.userTurns = 0, !.setOk = FALSE,
              !.lastAssistantSet = {}, !.attempt = 0]

\* what is kept of a call once it has ended: who called with what, and
\* the outcome
Ending(r) ==
    [LoopExit(r) EXCEPT !.plan = "free", !.aiResponse = Empty, !.inTTL = FALSE,
                        !.calls = 0, !.emergencyCalls = 0, !.loopEnd = "none"]

ReturnOk(r, resp) ==
    [Ending(r) EXCEPT !.status = "ok", !.response = resp, !.lastCall = "none"]
Throw(r, err) == [Ending(r) EXCEPT !.status = "error", !.error = err]

\* the turn a later identical call within the TTL is measured against: the
\* last call that completed on the session with no call on it since
Remember(r, resp) ==
    IF r.inTTL
    THEN [recent EXCEPT ![r.sid] = [id |-> r.id, text |-> r.text, response |-> resp]]
    ELSE recent

Running(q) == ~Finished(q)

\* lines 249-305: getSession, the lastTwo read with the duplicate
\* short-circuit, the history and user-turn reads (the consecutive reads of
\* chat_messages are one snapshot), rawUserMsg = String(message).slice(0, 2000)
csGetSession(p) ==
    /\ Finished(p)
    /\ FirstIdle(p)
    /\ nreq < MaxRequests
    /\ nreq' = nreq + 1
    /\ \E c \in ChatCallers, t \in ChatTexts, readOk \in BOOLEAN :
         LET s == c[1]
             u == c[2]
             others == {q \in Procs \ {p} : Running(q) /\ rq[q].sid = s}
             twins == {q \in others : rq[q].text = t /\ rq[q].inTTL}
             prior == IF s \in Sessions /\ others = {} /\ recent[s].text = t
                      THEN recent[s] ELSE NoTurn
             r0 == [IdleRq EXCEPT !.id = nreq + 1, !.sid = s, !.uid = u, !.text = t,
                       !.userText = Slice(t, 2000), !.inTTL = TRUE,
                       !.dupOf = prior.id,
                       !.dupReply = prior.response,
                       !.overlapOf = IF twins = {} THEN 0
                                     ELSE rq[CHOOSE q \in twins : TRUE].id]
             \* a call that starts on the session ends the "no other turn" window
             rqs == [q \in Procs |-> IF q \in others THEN [rq[q] EXCEPT !.dupOf = 0] ELSE rq[q]]
         IN IF ~getSession(s, u)
            THEN /\ readOk
                 /\ rq' = [rq EXCEPT ![p] = Throw([r0 EXCEPT !.dupOf = 0, !.dupReply = Empty, !.overlapOf = 0],
                                                  "Session not found or access denied")]
                 /\ pc' = [pc EXCEPT ![p] = "failed"]
                 /\ UNCHANGED <<faults, recent>>
            ELSE LET lastTwo == IF readOk THEN LastTwo(s) ELSE << >>
                 IN /\ Fault(~readOk)
                    /\ IF IsDuplicateSend(lastTwo, t)
                       THEN /\ rq' = [rqs EXCEPT ![p] =
                                        [ReturnOk(r0, lastTwo[1].content)
                                            EXCEPT !.lastCall = "duplicate"]]
                            /\ pc' = [pc EXCEPT ![p] = "done"]
                            /\ recent' = Remember(r0, lastTwo[1].content)
                       ELSE /\ rq' = [rqs EXCEPT ![p] =
                                        [r0 EXCEPT !.lastTwo = lastTwo,
                                                   !.userTurns = UserTurnCount(s)]]
                            /\ pc' = [pc EXCEPT ![p] = "idempotency"]
                            /\ recent' = [recent EXCEPT ![s] = NoTurn]
    /\ UNCHANGED <<msgs, touched, idem, isConnected, nsfw, deleted, life, fb, queueVars, promptVars>>

\* redis.js lines 97-109: RedisClient.set.  Not connected: false.  Otherwise
\* SET key value EX ttl NX is sent and true is returned whatever the reply
\* (OK when the key was set, null when it was already there); false only
\* when the command throws.
RedisSet(key, by, err) ==
    LET present == \E k \in idem : k.key = key
        ok == isConnected /\ ~err
    IN [ok |-> ok,
        idem |-> IF ok /\ ~present THEN idem \cup {[key |-> key, by |-> by]} ELSE idem]

\* lines 323-437: the idempotency key (on a failed set the latest row is
\* returned when it is an assistant row), then getUserPlan ('free' on
\* failure), the guards, and the last five assistant replies (empty set on
\* failure)
csIdempotency(p) ==
    /\ pc[p] = "idempotency"
    /\ \E err \in BOOLEAN, planOk \in BOOLEAN, recOk \in BOOLEAN :
         LET r == rq[p]
             res == RedisSet(<<r.sid, r.userText>>, r.id, err)
         IN /\ err => isConnected
            /\ idem' = res.idem
            /\ IF ~res.ok /\ Len(r.lastTwo) >= 1 /\ IsAssistant(r.lastTwo[1].role)
               THEN /\ planOk /\ recOk
                    /\ Fault(err)
                    /\ rq' = [rq EXCEPT ![p] = ReturnOk(r, r.lastTwo[1].content)]
                    /\ pc' = [pc EXCEPT ![p] = "done"]
                    /\ recent' = Remember(r, r.lastTwo[1].content)
               ELSE /\ Faults((IF err THEN 1 ELSE 0) + (IF planOk THEN 0 ELSE 1)
                                + (IF recOk THEN 0 ELSE 1))
                    /\ rq' = [rq EXCEPT ![p] =
                                 [r EXCEPT !.setOk = res.ok,
                                           !.plan = IF planOk THEN UserPlan[r.uid] ELSE "free",
                                           !.lastAssistantSet =
                                               IF recOk THEN RecentAssistantSet(r.sid) ELSE {}]]
                    /\ pc' = [pc EXCEPT ![p] = "attempt"]
                    /\ UNCHANGED recent
    /\ UNCHANGED <<msgs, touched, nreq, isConnected, nsfw, deleted, life, fb, queueVars, promptVars>>

\* lastCall: the completion call just made returned text / threw or returned
\* no text ("duplicate": the call was answered from lastTwo); allFailed: calls were made and none of them returned text
Answered(r) == [r EXCEPT !.lastCall = "text", !.allFailed = FALSE]
Unanswered(r) == [r EXCEPT !.lastCall = "failed", !.allFailed = (r.calls = 1 \/ r.allFailed)]

\* lines 581-590 and 730-734: where an accepted or emergency reply goes
\* next: the strict re-prompt of the free plan, the empty-response guard,
\* or the save
AfterGeneration(r, ai) ==
    IF ai = Empty THEN "throwEmpty"
    ELSE IF ~isPaidPlan(r.plan) /\ FormatViolated(ai) THEN "strict"
    ELSE "persist"

Goto(p, r, ai) ==
    LET to == AfterGeneration(r, ai)
    IN IF to = "throwEmpty"
       THEN /\ rq' = [rq EXCEPT ![p] = Throw(r, "Empty AI response from model")]
            /\ pc' = [pc EXCEPT ![p] = "failed"]
       ELSE /\ rq' = [rq EXCEPT ![p] = [LoopExit(r) EXCEPT !.aiResponse = ai]]
            /\ pc' = [pc EXCEPT ![p] = to]

\* a catch block that leaves the loop for the emergency retry instead of
\* throwing on the last attempt
AttemptCatch_ToEmergency(p, r) ==
    IF r.attempt = maxAttempts - 1
    THEN /\ rq' = [rq EXCEPT ![p] = [LoopExit(r) EXCEPT !.loopEnd = "threw"]]
         /\ pc' = [pc EXCEPT ![p] = "emergency"]
    ELSE /\ rq' = [rq EXCEPT ![p] = [r EXCEPT !.attempt = @ + 1]]
         /\ UNCHANGED pc

\* lines 550-556: the catch block of an attempt
AttemptCatch(p, r) ==
    IF r.attempt = maxAttempts - 1
    THEN /\ rq' = [rq EXCEPT ![p] = Throw([r EXCEPT !.loopEnd = "threw"], "RateLimitError")]
         /\ pc' = [pc EXCEPT ![p] = "failed"]
    ELSE /\ rq' = [rq EXCEPT ![p] = [r EXCEPT !.attempt = @ + 1]]
         /\ UNCHANGED pc

\* a retry loop that gives up at the first call that fails
csAttempt_NoRetry(p) ==
    /\ pc[p] = "attempt"
    /\ LET r0 == [rq[p] EXCEPT !.calls = @ + 1]
           r == Answered(r0)
       IN \/ \E c \in ChatReplies :
               LET content == Trim(c)
               IN /\ Fault(FALSE)
                  /\ IF Rejected(r, content)
                     THEN IF r.attempt + 1 < maxAttempts
                          THEN /\ rq' = [rq EXCEPT ![p] = [r EXCEPT !.attempt = @ + 1]]
                               /\ UNCHANGED pc
                          ELSE /\ rq' = [rq EXCEPT ![p] =
                                           [LoopExit(r) EXCEPT !.loopEnd = "rejected"]]
                               /\ pc' = [pc EXCEPT ![p] = "emergency"]
                     ELSE Goto(p, [r EXCEPT !.loopEnd = "accepted"], content)
          \/ /\ Fault(~r0.allFailed)
             /\ rq' = [rq EXCEPT ![p] = Throw(Unanswered(r0), "RateLimitError")]
             /\ pc' = [pc EXCEPT ![p] = "failed"]
    /\ UNCHANGED <<msgs, touched, nreq, idem, isConnected, recent, nsfw, deleted, life, fb, queueVars, promptVars>>

\* lines 442-557: one pass of the retry loop
csAttempt(p) ==
    /\ pc[p] = "attempt"
    /\ LET r0 == [rq[p] EXCEPT !.calls = @ + 1]
           r == Answered(r0)
       IN \/ \E c \in ChatReplies :
               LET content == Trim(c)
               IN /\ Fault(FALSE)
                  /\ IF Rejected(r, content)
                     THEN IF r.attempt + 1 < maxAttempts
                          THEN /\ rq' = [rq EXCEPT ![p] = [r EXCEPT !.attempt = @ + 1]]
                               /\ UNCHANGED pc
                          ELSE /\ rq' = [rq EXCEPT ![p] =
                                           [LoopExit(r) EXCEPT !.loopEnd = "rejected"]]
                               /\ pc' = [pc EXCEPT ![p] = "emergency"]
                     \* previousOutputs.add(normalized) is followed by break: the
                     \* set is never read with an element in it
                     ELSE Goto(p, [r EXCEPT !.loopEnd = "accepted"], content)
          \* the call throws, or answers without content (line 505 throws);
          \* a failure that follows nothing but failures is the same outage
          \/ /\ Fault(~r0.allFailed)
             /\ AttemptCatch(p, Unanswered(r0))
    /\ UNCHANGED <<msgs, touched, nreq, idem, isConnected, recent, nsfw, deleted, life, fb, queueVars, promptVars>>

\* an emergency retry whose reply goes through the validation gate and
\* fails the call when it is rejected
csEmergency_Validated(p) ==
    /\ pc[p] = "emergency"
    /\ LET r == [rq[p] EXCEPT !.calls = @ + 1, !.emergencyCalls = @ + 1]
       IN \/ \E c \in ChatReplies :
               /\ Fault(FALSE)
               /\ Goto(p, Answered(r), IF Rejected(r, Trim(c)) THEN Empty ELSE Trim(c))
          \/ Fault(TRUE) /\ Goto(p, Unanswered(r), Empty)
    /\ UNCHANGED <<msgs, touched, nreq, idem, isConnected, recent, nsfw, deleted, life, fb, queueVars, promptVars>>

\* lines 559-579: the emergency retry, no validation
csEmergency(p) ==
    /\ pc[p] = "emergency"
    /\ LET r == [rq[p] EXCEPT !.calls = @ + 1, !.emergencyCalls = @ + 1]
       IN \/ \E c \in ChatReplies : Fault(FALSE) /\ Goto(p, Answered(r), Trim(c))
          \/ Fault(TRUE) /\ Goto(p, Unanswered(r), Empty)
    /\ UNCHANGED <<msgs, touched, nreq, idem, isConnected, recent, nsfw, deleted, life, fb, queueVars, promptVars>>

\* a strict re-prompt that is sent again when it comes back empty
csStrict_RetryOnEmpty(p) ==
    /\ pc[p] = "strict"
    /\ LET r == [rq[p] EXCEPT !.calls = @ + 1]
       IN \/ \E c \in ChatReplies \cup {Empty} :
               LET ai == IF c = Empty THEN r.aiResponse ELSE Trim(c)
               IN /\ Fault(c = Empty)
                  /\ rq' = [rq EXCEPT ![p] =
                               [(IF c = Empty THEN Unanswered(r) ELSE Answered(r))
                                   EXCEPT !.aiResponse = ai]]
                  /\ pc' = [pc EXCEPT ![p] =
                               IF c = Empty THEN "strict"
                               ELSE IF FormatViolated(ai) THEN "strictest" ELSE "persist"]
          \/ /\ Fault(TRUE)
             /\ rq' = [rq EXCEPT ![p] = Unanswered(r)]
             /\ pc' = [pc EXCEPT ![p] = "persist"]
    /\ UNCHANGED <<msgs, touched, nreq, idem, isConnected, recent, nsfw, deleted, life, fb, queueVars, promptVars>>

\* lines 591-625: the strict re-prompt; its reply replaces aiResponse when
\* not empty, and the format is tested again
csStrict(p) ==
    /\ pc[p] = "strict"
    /\ LET r == [rq[p] EXCEPT !.calls = @ + 1]
       IN \/ \E c \in ChatReplies \cup {Empty} :
               LET ai == IF c = Empty THEN r.aiResponse ELSE Trim(c)
               IN /\ Fault(c = Empty)
                  /\ rq' = [rq EXCEPT ![p] =
                               [(IF c = Empty THEN Unanswered(r) ELSE Answered(r))
                                   EXCEPT !.aiResponse = ai]]
                  /\ pc' = [pc EXCEPT ![p] =
                               IF FormatViolated(ai) THEN "strictest" ELSE "persist"]
          \* lines 653-655: the call throws
          \/ /\ Fault(TRUE)
             /\ rq' = [rq EXCEPT ![p] = Unanswered(r)]
             /\ pc' = [pc EXCEPT ![p] = "persist"]
    /\ UNCHANGED <<msgs, touched, nreq, idem, isConnected, recent, nsfw, deleted, life, fb, queueVars, promptVars>>

\* lines 626-652: the final stricter re-prompt
csStrictest(p) ==
    /\ pc[p] = "strictest"
    /\ LET r == [rq[p] EXCEPT !.calls = @ + 1]
       IN \/ \E c \in ChatReplies :
               /\ Fault(FALSE)
               /\ rq' = [rq EXCEPT ![p] = [Answered(r) EXCEPT !.aiResponse = Trim(c)]]
          \/ /\ Fault(TRUE)
             /\ rq' = [rq EXCEPT ![p] = Unanswered(r)]
    /\ pc' = [pc EXCEPT ![p] = "persist"]
    /\ UNCHANGED <<msgs, touched, nreq, idem, isConnected, recent, nsfw, deleted, life, fb, queueVars, promptVars>>

\* 011_fix_chat_messages_role.sql lines 13-87: both rows in one transaction,
\* or none.  created_at defaults to NOW(), the same for both rows, and id to
\* gen_random_uuid(), so their order under (created_at, id) is either one.
create_chat_messages(s, q, userMessage, aiMessage, aiFirst) ==
    LET u == Row("user", userMessage, NULL, NoSession, q)
        a == Row("assistant", aiMessage, NULL, NoSession, q)
    IN [msgs EXCEPT ![s] = IF aiFirst THEN @ \o << a, u >> ELSE @ \o << u, a >>]

\* lines 736-797: the save through the RPC with both texts cut to 1000
\* characters, and the return of the reply
csPersist(p) ==
    /\ pc[p] = "persist"
    /\ \E ok \in BOOLEAN, aiFirst \in BOOLEAN :
         LET r == rq[p]
         IN /\ Fault(~ok)
            /\ IF ok
               THEN /\ msgs' = create_chat_messages(r.sid, r.id, Slice(r.userText, 1000),
                                                    Slice(r.aiResponse, 1000), aiFirst)
                    /\ rq' = [rq EXCEPT ![p] = ReturnOk(r, r.aiResponse)]
                    /\ pc' = [pc EXCEPT ![p] = "done"]
                    /\ recent' = Remember(r, r.aiResponse)
               ELSE /\ ~aiFirst
                    /\ rq' = [rq EXCEPT ![p] =
                                 Throw([r EXCEPT !.insertFault = TRUE],
                                       "Failed to save chat messages")]
                    /\ pc' = [pc EXCEPT ![p] = "failed"]
                    /\ UNCHANGED <<msgs, recent>>
    /\ UNCHANGED <<touched, nreq, idem, isConnected, nsfw, deleted, life, fb, queueVars, promptVars>>

\* redis.js lines 49-52: the 'ready' event
RedisReady ==
    /\ ~isConnected
    /\ isConnected' = TRUE
    /\ UNCHANGED <<msgs, touched, pc, rq, nreq, faults, idem, recent, nsfw, deleted, life, fb, queueVars, promptVars>>

\* redis.js lines 54-65: the 'reconnecting', 'error' and 'end' events
RedisDown ==
    /\ isConnected
    /\ Fault(TRUE)
    /\ isConnected' = FALSE
    /\ UNCHANGED <<msgs, touched, pc, rq, nreq, idem, recent, nsfw, deleted, life, fb, queueVars, promptVars>>

\* the 15 seconds of the idempotency window (line 327) elapse: the keys
\* expire and no earlier call is "within the TTL" any more
TTLExpires ==
    /\ idem # {} \/ \E s \in Sessions : recent[s].id # 0
    /\ idem' = {}
    /\ recent' = [s \in Sessions |-> NoTurn]
    /\ rq' = [q \in Procs |-> [rq[q] EXCEPT !.inTTL = FALSE, !.dupOf = 0, !.overlapOf = 0]]
    /\ UNCHANGED <<msgs, touched, pc, nreq, faults, isConnected, nsfw, deleted, life, fb, queueVars, promptVars>>

Next ==
    \/ \E p \in Procs :
          \/ csGetSession(p)
          \/ csIdempotency(p)
          \/ csAttempt(p)
          \/ csEmergency(p)
          \/ csStrict(p)
          \/ csStrictest(p)
          \/ csPersist(p)
    \/ RedisReady
    \/ RedisDown
    \/ TTLExpires

Spec == Init /\ [][Next]_vars

\* the steps of one call after its first: each is the continuation of an
\* awaited call, which the event loop runs once that call has settled
csStep(p) ==
    \/ csIdempotency(p)
    \/ csAttempt(p)
    \/ csEmergency(p)
    \/ csStrict(p)
    \/ csStrictest(p)
    \/ csPersist(p)

\* calls made one after the other
NextSolo ==
    \/ csGetSession("p1")
    \/ csStep("p1")
    \/ RedisReady
    \/ RedisDown
    \/ TTLExpires

\* every awaited call (database, cache, completion) returns or throws
FairSpec == Init /\ [][NextSolo]_vars /\ WF_vars(csStep("p1"))

\* ------------------------------------------------------------------
\* requestQueue.js: enqueueRequest over the global p-queue and the per-user
\* p-queues.  A p-queue runs at most `concurrency` operations at a time in
\* the order of their arrival; the `timeout` of an operation runs from its
\* start, and when it elapses p-queue settles the operation's promise and
\* gives its slot to the next one, while the function that was started is
\* not cancelled.  interval / intervalCap only delay a start and are left
\* out.
\* ------------------------------------------------------------------
globalConcurrency == 100
userConcurrency == 5

\* calls of enqueueRequest a user may make, and timeouts that may elapse
MaxBurst == 101
MaxLight == 2
MaxTimeouts == 2
MaxEnqueued(u) == IF u = "u1" THEN MaxBurst ELSE MaxLight

RECURSIVE SumOver(_, _)
SumOver(S, f) ==
    IF S = {} THEN 0
    ELSE LET x == CHOOSE y \in S : TRUE IN f[x] + SumOver(S \ {x}, f)

\* queue.pending: the wrappers the global queue is running; a wrapper runs
\* until the promise of userQueue.add settles
globalPending(q) == SumOver(Users, [u \in Users |-> q[u].waiting + q[u].running])

\* userQueue.pending
userPending(q, u) == q[u].running + q[u].abandonedRunning

\* completion calls started and not yet returned
InFlight(q, u) == q[u].running + q[u].abandonedRunning + q[u].loose
TotalInFlight(q) == SumOver(Users, [u \in Users |-> InFlight(q, u)])

\* lines 43-49: userQueue.add(requestFn): start it when the user queue has a
\* free slot, else it waits there (its wrapper keeps the global slot)
userAdd(q, u) ==
    IF userPending(q, u) < userConcurrency
    THEN [q EXCEPT ![u].running = @ + 1]
    ELSE [q EXCEPT ![u].waiting = @ + 1]

\* a slot of the user queue was given back: the oldest waiting request
\* starts; those whose caller has already timed out are the oldest
userNext(q, u) ==
    IF q[u].abandonedWaiting > 0
    THEN [q EXCEPT ![u].abandonedWaiting = @ - 1, ![u].abandonedRunning = @ + 1]
    ELSE IF q[u].waiting > 0
    THEN [q EXCEPT ![u].waiting = @ - 1, ![u].running = @ + 1]
    ELSE q

\* a slot of the global queue was given back: the oldest waiting wrapper
\* starts and hands its request to the queue of its user
globalNext(g, q) ==
    IF g # << >> THEN << Tail(g), userAdd(q, Head(g)) >> ELSE << g, q >>

\* lines 41-49: enqueueRequest(requestFn, userId)
enqueueRequest(u) ==
    /\ uq[u].enqueued < MaxEnqueued(u)
    /\ LET q == [uq EXCEPT ![u].enqueued = @ + 1]
       IN IF globalPending(uq) < globalConcurrency
          THEN gq' = gq /\ uq' = userAdd(q, u)
          ELSE gq' = Append(gq, u) /\ uq' = q
    /\ UNCHANGED <<msgs, touched, pc, rq, nreq, faults, idem, isConnected, recent, nsfw, deleted, life, fb,
                   timeouts, promptVars>>

\* the completion call of a request returns to its caller: both slots are
\* given back, the user queue first
completionReturns(u) ==
    /\ uq[u].running > 0
    /\ LET next == globalNext(gq, userNext([uq EXCEPT ![u].running = @ - 1], u))
       IN gq' = next[1] /\ uq' = next[2]
    /\ UNCHANGED <<msgs, touched, pc, rq, nreq, faults, idem, isConnected, recent, nsfw, deleted, life, fb,
                   timeouts, promptVars>>

\* lines 11-12 and 50-53: the timeout of the global queue elapses for the
\* oldest wrapper, 30 s after its start: enqueueRequest throws RateLimitError
\* and the global slot is given back; the request stays in the user queue
globalTimeout(u) ==
    /\ timeouts < MaxTimeouts
    /\ uq[u].running + uq[u].waiting > 0
    /\ LET q == IF uq[u].running > 0
                THEN [uq EXCEPT ![u].running = @ - 1, ![u].abandonedRunning = @ + 1]
                ELSE [uq EXCEPT ![u].waiting = @ - 1, ![u].abandonedWaiting = @ + 1]
           next == globalNext(gq, q)
       IN gq' = next[1] /\ uq' = next[2]
    /\ timeouts' = timeouts + 1
    /\ UNCHANGED <<msgs, touched, pc, rq, nreq, faults, idem, isConnected, recent, nsfw, deleted, life, fb,
                   promptVars>>

\* lines 31 and 46-48: the timeout of the user queue elapses for a running
\* request, 30 s after its start: the user slot is given back while the
\* completion call goes on; a caller still waiting gets RateLimitError and
\* the global slot is given back as well
userTimeout(u) ==
    /\ timeouts < MaxTimeouts
    /\ \/ /\ uq[u].abandonedRunning > 0
          /\ uq' = userNext([uq EXCEPT ![u].abandonedRunning = @ - 1,
                                       ![u].loose = @ + 1], u)
          /\ gq' = gq
       \/ /\ uq[u].running > 0
          /\ LET next == globalNext(gq, userNext([uq EXCEPT ![u].running = @ - 1,
                                                            ![u].loose = @ + 1], u))
             IN gq' = next[1] /\ uq' = next[2]
    /\ timeouts' = timeouts + 1
    /\ UNCHANGED <<msgs, touched, pc, rq, nreq, faults, idem, isConnected, recent, nsfw, deleted, life, fb,
                   promptVars>>

\* a completion call whose caller has timed out returns: nobody awaits it
abandonedReturns(u) ==
    /\ \/ /\ uq[u].abandonedRunning > 0
          /\ uq' = userNext([uq EXCEPT ![u].abandonedRunning = @ - 1], u)
       \/ /\ uq[u].loose > 0
          /\ uq' = [uq EXCEPT ![u].loose = @ - 1]
    /\ UNCHANGED <<msgs, touched, pc, rq, nreq, faults, idem, isConnected, recent, nsfw, deleted, life, fb,
                   gq, timeouts, promptVars>>

NextQueue ==
    \E u \in Users :
        \/ enqueueRequest(u)
        \/ completionReturns(u)
        \/ globalTimeout(u)
        \/ userTimeout(u)
        \/ abandonedReturns(u)

InitQueue == Init /\ ~nsfw

SpecQueue == InitQueue /\ [][NextQueue]_vars

\* ------------------------------------------------------------------
\* chat.service.js lines 340-417, 455-480, 592-644: the message lists
\* sendMessage hands to chatCompletion.  A message is a role and a text; a
\* directive is written as the label its text starts with.
\* ------------------------------------------------------------------
Msg(role, content) == [role |-> role, content |-> content]
Directive(label) == Msg("system", label)

\* t3: a text ending in "..." - extractTopic finds no last sentence in it
PromptTexts == ChatTexts \cup {Txt("t3", 5)}

\* extractTopic(text).focus is not empty
HasFocus(t) == t.body \in {"t1", "t2"}

PromptInputs ==
    [text : PromptTexts, userTurns : {0, minTurnsForExplicit}, plan : {"free", "pro"},
     history : {<< >>, <<"user", "assistant">>}]

Opt(c, m) == IF c THEN << m >> ELSE << >>

\* lines 344-409: the guards, and the list `messages`
messages(in) ==
    LET rawUserMsg == Slice(in.text, 2000)
        hasTopic == nsfw /\ (HasFocus(rawUserMsg) \/ Keywords(rawUserMsg) # {})
    IN << Msg("system", "systemPrompt"), Directive("LENGTH POLICY") >>
       \o Opt(~isPaidPlan(in.plan), Directive("FORMAT"))
       \o Opt(hasTopic, Directive("DIRECT ANSWER"))
       \o Opt(~nsfw, Directive("Safety Policy"))
       \o Opt(nsfw /\ in.userTurns < minTurnsForExplicit, Directive("PACING"))
       \o Opt(nsfw /\ detectFlirt(rawUserMsg), Directive("ON-TOPIC"))
       \o Opt(hasTopic, Directive("TOPIC FOCUS"))
       \o Opt(nsfw, Directive("DEPTH"))
       \o [i \in 1..Len(in.history) |-> Msg(in.history[i], "history")]
       \o << Msg("user", "rawUserMsg") >>

\* lines 413-417: tryMessages = [...messages]; tryMessages.splice(1, 0, antiRepeatNudge)
spliceNudge(l) == << l[1], Directive("antiRepeatNudge") >> \o Tail(l)

\* lines 462-480: flowEnhancer goes after the leading system messages
enhancedMessages(l) ==
    LET nonSystem == {i \in 1..Len(l) : l[i].role # "system"}
        firstNonSystemIdx ==
            IF nonSystem = {} THEN -1
            ELSE (CHOOSE i \in nonSystem : \A j \in nonSystem : i <= j) - 1
        insertAfter == IF firstNonSystemIdx > 0 THEN firstNonSystemIdx ELSE 1
    IN IF Len(l) > 1 /\ l[2].role = "system"
       THEN SubSeq(l, 1, insertAfter) \o << Directive("FLOW") >>
            \o SubSeq(l, insertAfter + 1, Len(l))
       ELSE << l[1], Directive("FLOW") >> \o Tail(l)

\* lines 596-601 and 630-635: [tryMessages[0], planGuard, guard, ...tryMessages.slice(1)]
strictMessages(l, guard) ==
    << l[1], Directive("LENGTH POLICY"), Directive(guard) >> \o Tail(l)

buildTryMessages ==
    /\ pstage = "input"
    /\ tryMessages' = spliceNudge(messages(pin))
    /\ pstage' = "built"
    /\ UNCHANGED <<msgs, touched, pc, rq, nreq, faults, idem, isConnected, recent, nsfw, deleted, life, fb,
                   queueVars, pin, sent>>

\* lines 487-501: a pass of the retry loop sends enhancedMessages
sendAttempt ==
    /\ pstage \in {"built", "attempt"}
    /\ sent' = enhancedMessages(tryMessages)
    /\ pstage' = "attempt"
    /\ UNCHANGED <<msgs, touched, pc, rq, nreq, faults, idem, isConnected, recent, nsfw, deleted, life, fb,
                   queueVars, pin, tryMessages>>

\* lines 562-571: the emergency retry sends tryMessages
sendEmergency ==
    /\ pstage = "attempt"
    /\ sent' = tryMessages
    /\ pstage' = "emergency"
    /\ UNCHANGED <<msgs, touched, pc, rq, nreq, faults, idem, isConnected, recent, nsfw, deleted, life, fb,
                   queueVars, pin, tryMessages>>

\* lines 592-614: the strict re-prompt of the free plan
sendStrict ==
    /\ pstage \in {"attempt", "emergency"}
    /\ ~isPaidPlan(pin.plan)
    /\ sent' = strictMessages(tryMessages, "STRICT LENGTH")
    /\ pstage' = "strict"
    /\ UNCHANGED <<msgs, touched, pc, rq, nreq, faults, idem, isConnected, recent, nsfw, deleted, life, fb,
                   queueVars, pin, tryMessages>>

\* lines 626-647: the final stricter re-prompt
sendStrictest ==
    /\ pstage = "strict"
    /\ sent' = strictMessages(tryMessages, "FINAL ATTEMPT")
    /\ pstage' = "strictest"
    /\ UNCHANGED <<msgs, touched, pc, rq, nreq, faults, idem, isConnected, recent, nsfw, deleted, life, fb,
                   queueVars, pin, tryMessages>>

NextPrompt ==
    \/ buildTryMessages
    \/ sendAttempt
    \/ sendEmergency
    \/ sendStrict
    \/ sendStrictest

InitPrompt ==
    /\ InitStore
    /\ QueueIdle
    /\ deleted = {}
    /\ life = NoLife
    /\ fb = NoCall
    /\ pin \in PromptInputs
    /\ tryMessages = << >>
    /\ sent = << >>
    /\ pstage = "input"

SpecPrompt == InitPrompt /\ [][NextPrompt]_vars

\* ------------------------------------------------------------------
\* clearSessionMessages, deleteMessage and deleteSession next to the turns
\* of messageBuilder.js
\* ------------------------------------------------------------------
MaxLifeCalls == 1

\* deleteMessage is followed for the rows at the first positions of a session
MaxPosition == 2

LifeCall(op, s, u, result) ==
    [calls |-> life.calls + 1, op |-> op, sid |-> s, uid |-> u, result |-> result]

RemoveAt(seq, i) == SubSeq(seq, 1, i - 1) \o SubSeq(seq, i + 1, Len(seq))

\* messageBuilder.js lines 808-827: the ownership check (the row of
\* chat_sessions by id, user_id compared in the code), then the delete of
\* every row of the session
clearSessionMessages(s, u) ==
    /\ life.calls < MaxLifeCalls
    /\ \E out \in {"ok", "sessErr", "delErr"} :
         /\ Fault(out # "ok")
         /\ IF out = "sessErr" \/ s \notin Sessions \ deleted \/ SessionOwner[s] # u
            THEN /\ out # "delErr"
                 /\ life' = LifeCall("clearSessionMessages", s, u,
                                      "Not authorized to clear this session")
                 /\ UNCHANGED msgs
            ELSE IF out = "delErr"
            THEN /\ life' = LifeCall("clearSessionMessages", s, u,
                                      "Failed to clear session messages")
                 /\ UNCHANGED msgs
            ELSE /\ life' = LifeCall("clearSessionMessages", s, u, "success")
                 /\ msgs' = [msgs EXCEPT ![s] = << >>]
    /\ UNCHANGED <<touched, pc, rq, nreq, idem, isConnected, recent, nsfw, deleted, fb,
                   queueVars, promptVars>>

\* messageBuilder.js lines 869-900: the row by id (i = 0: no such row), the
\* session of the row with user_id = userId, then the delete of the row
deleteMessage(s, i, u) ==
    /\ life.calls < MaxLifeCalls
    /\ i \in 0..Len(msgs[s])
    /\ \E out \in {"ok", "msgErr", "sessErr", "delErr"} :
         /\ Fault(out # "ok")
         /\ IF out = "msgErr" \/ i = 0
            THEN /\ out \in {"ok", "msgErr"}
                 /\ life' = LifeCall("deleteMessage", s, u, "Message not found")
                 /\ UNCHANGED msgs
            ELSE IF out = "sessErr" \/ ~getSession(s, u)
            THEN /\ out \in {"ok", "sessErr"}
                 /\ life' = LifeCall("deleteMessage", s, u,
                                      "Not authorized to delete this message")
                 /\ UNCHANGED msgs
            ELSE IF out = "delErr"
            THEN /\ life' = LifeCall("deleteMessage", s, u, "Failed to delete message")
                 /\ UNCHANGED msgs
            ELSE /\ life' = LifeCall("deleteMessage", s, u, "success")
                 /\ msgs' = [msgs EXCEPT ![s] = RemoveAt(@, i)]
    /\ UNCHANGED <<touched, pc, rq, nreq, idem, isConnected, recent, nsfw, deleted, fb,
                   queueVars, promptVars>>

\* chat.service.js lines 948-973 (messageBuilder.js 778-803 is the same):
\* delete from chat_messages where session_id = sessionId, whoever calls;
\* then delete from chat_sessions where id = sessionId and user_id = userId,
\* which removes no row for another user and is no error
deleteSession(s, u) ==
    /\ life.calls < MaxLifeCalls
    /\ \E out \in {"ok", "messagesError", "sessionError"} :
         /\ Fault(out # "ok")
         /\ IF out = "messagesError"
            THEN /\ life' = LifeCall("deleteSession", s, u, "Failed to delete chat messages")
                 /\ UNCHANGED <<msgs, deleted>>
            ELSE /\ msgs' = IF s \in Sessions THEN [msgs EXCEPT ![s] = << >>] ELSE msgs
                 /\ IF out = "sessionError"
                    THEN /\ life' = LifeCall("deleteSession", s, u, "Failed to delete session")
                         /\ UNCHANGED deleted
                    ELSE /\ life' = LifeCall("deleteSession", s, u, "success")
                         /\ deleted' = IF getSession(s, u) THEN deleted \cup {s} ELSE deleted
    /\ UNCHANGED <<touched, pc, rq, nreq, idem, isConnected, recent, nsfw, fb,
                   queueVars, promptVars>>

NextLife ==
    \/ NextMirror
    \/ \E c \in Callers : clearSessionMessages(c[1], c[2])
    \/ \E s \in Sessions, i \in 0..MaxPosition, u \in Users : deleteMessage(s, i, u)
    \/ \E c \in Callers : deleteSession(c[1], c[2])

SpecLife == InitMirror /\ [][NextLife]_vars

\* ------------------------------------------------------------------
\* chatCompletion with the serverless fallbacks
\* ------------------------------------------------------------------

\* the three models the code names (llama is the Meta-Llama-3.1-8B Turbo
\* model) and one it does not
Llama == "llama"
Mixtral == "mixtral"
Qwen == "qwen"
Custom == "custom"

\* process.env.TOGETHER_MODEL || 'meta-llama/Meta-Llama-3.1-8B-Instruct-Turbo'
EnvModels == {"none", Custom, Qwen}
DEFAULT_MODEL(env) == IF env = "none" THEN Llama ELSE env

\* options.model as a caller may give it
OptionModels == {"none", Custom, Mixtral, Llama, "other"}

SERVERLESS_FALLBACKS(env) == << DEFAULT_MODEL(env), Mixtral, Qwen, Llama >>

\* Array.from(new Set(list)): the first occurrence of each element, in order
Distinct(list) ==
    LET firsts == {i \in 1..Len(list) : \A j \in 1..(i - 1) : list[j] # list[i]}
        nth(k) == CHOOSE i \in firsts : Cardinality({j \in firsts : j < i}) = k - 1
    IN [k \in 1..Cardinality(firsts) |-> list[nth(k)]]

\* what together.chat.completions.create may throw: the error code of the
\* API, or a message of one of the two kinds the code looks for
CreateErrors ==
    {[code |-> "model_not_available", msg |-> "other"],
     [code |-> "none", msg |-> "non-serverless"],
     [code |-> "none", msg |-> "create and start a new dedicated endpoint"],
     [code |-> "rate_limit", msg |-> "other"],
     [code |-> "none", msg |-> "other"]}

\* lines 369-370
isNotAvailable(err) ==
    \/ err.code = "model_not_available"
    \/ err.msg = "non-serverless"
    \/ err.msg = "create and start a new dedicated endpoint"

\* lines 351-353: preferred and the candidate list
fbChatCompletion ==
    /\ fb.outcome = "none"
    /\ \E env \in EnvModels, opt \in OptionModels :
         LET preferred == IF opt = "none" THEN DEFAULT_MODEL(env) ELSE opt
         IN fb' = [NoCall EXCEPT !.preferred = preferred,
                                 !.fallbacks = SERVERLESS_FALLBACKS(env),
                                 !.candidates = Distinct(<< preferred >> \o SERVERLESS_FALLBACKS(env)),
                                 !.outcome = "running"]
    /\ UNCHANGED <<msgs, touched, pc, rq, nreq, faults, idem, isConnected, recent, nsfw,
                   deleted, life, queueVars, promptVars>>

\* fbCreate going on to the next model after any error
fbCreate_AnyError ==
    /\ fb.outcome = "running"
    /\ LET model == fb.candidates[Len(fb.tried) + 1]
           last == Len(fb.tried) + 1 = Len(fb.candidates)
       IN \/ fb' = [fb EXCEPT !.tried = Append(@, model), !.outcome = "returned"]
          \/ \E err \in CreateErrors :
                fb' = [fb EXCEPT !.tried = Append(@, model),
                                 !.errors = Append(@, err),
                                 !.outcome = IF ~last THEN "running" ELSE "thrown",
                                 !.thrown = IF ~last THEN NoError ELSE err]
    /\ UNCHANGED <<msgs, touched, pc, rq, nreq, faults, idem, isConnected, recent, nsfw,
                   deleted, life, queueVars, promptVars>>

\* lines 355-380: one pass of the loop over the candidates: the call
\* returns, or throws; after a model-unavailable error the loop goes on, and
\* past the last candidate lastErr is thrown; any other error is rethrown
fbCreate ==
    /\ fb.outcome = "running"
    /\ LET model == fb.candidates[Len(fb.tried) + 1]
           last == Len(fb.tried) + 1 = Len(fb.candidates)
       IN \/ fb' = [fb EXCEPT !.tried = Append(@, model), !.outcome = "returned"]
          \/ \E err \in CreateErrors :
                fb' = [fb EXCEPT !.tried = Append(@, model),
                                 !.errors = Append(@, err),
                                 !.outcome = IF isNotAvailable(err) /\ ~last THEN "running"
                                             ELSE "thrown",
                                 !.thrown = IF isNotAvailable(err) /\ ~last THEN NoError
                                            ELSE err]
    /\ UNCHANGED <<msgs, touched, pc, rq, nreq, faults, idem, isConnected, recent, nsfw,
                   deleted, life, queueVars, promptVars>>

NextFallback == fbChatCompletion \/ fbCreate

InitFallback == Init /\ ~nsfw

SpecFallback == InitFallback /\ [][NextFallback]_vars



TypeOK ==
    /\ nreq \in 0..MaxRequests
    /\ faults \in 0..MaxFaults
    /\ \A p \in Procs : rq[p].id \in 0..MaxRequests

\* ------------------------------------------------------------------
\* helpers of the properties
\* ------------------------------------------------------------------
\* positions of the rows request q wrote into session s under the given role
RowsBy(s, q, role) ==
    {i \in 1..Len(msgs[s]) : msgs[s][i].req = q /\ msgs[s][i].role = role}

Returned(p) == pc[p] = "done"
Ended(p) == pc[p] \in {"done", "failed"}

\* ------------------------------------------------------------------
\* C1: in every session the order_index values of the persisted messages
\* are strictly increasing in insertion order (hence without duplicates),
\* under any interleaving of turns and mirrored writes.
\* ------------------------------------------------------------------
C1_OrderIndexStrictlyIncreasing ==
    \A s \in Sessions : \A i, j \in 1..Len(msgs[s]) :
        (i < j /\ msgs[s][i].order_index # NULL /\ msgs[s][j].order_index # NULL)
            => msgs[s][i].order_index < msgs[s][j].order_index

\* ------------------------------------------------------------------
\* C5: once a sendMessage call has ended, the session holds the user
\* message and the assistant message of that turn, or neither.
\* ------------------------------------------------------------------
C5_NoPartialTurn ==
    \A p \in Procs :
        (Ended(p) /\ rq[p].sid \in Sessions) =>
            (RowsBy(rq[p].sid, rq[p].id, "user") # {}
                <=> RowsBy(rq[p].sid, rq[p].id, "assistant") # {})

\* ------------------------------------------------------------------
\* C7: when the insert of the user message or of the assistant message
\* fails, sendMessage ends with an error and not with a successful reply.
\* ------------------------------------------------------------------
C7_InsertFailureIsAnError ==
    \A p \in Procs : (Ended(p) /\ rq[p].insertFault) => rq[p].status = "error"

\* ------------------------------------------------------------------
\* C8: after a turn on a linked session whose two mirror inserts succeeded,
\* the mirror session holds exactly one user row and one assistant row of
\* that turn, the user row first, with the contents persisted in the
\* primary session and metadata.mirrored_from naming the primary session.
\* ------------------------------------------------------------------
C8_MirrorPair ==
    \A p \in Procs :
        (Returned(p) /\ rq[p].mirroredUser /\ rq[p].mirroredAssistant) =>
            LET a == rq[p].sid
                b == getMirrorSessionId(a)
                q == rq[p].id
                pu == RowsBy(a, q, "user")
                pa == RowsBy(a, q, "assistant")
                mu == RowsBy(b, q, "user")
                ma == RowsBy(b, q, "assistant")
            IN /\ b \in Sessions /\ b # a
               /\ Cardinality(pu) = 1 /\ Cardinality(pa) = 1
               /\ Cardinality(mu) = 1 /\ Cardinality(ma) = 1
               /\ \A i \in mu, j \in ma, k \in pu, l \in pa :
                    /\ i < j
                    /\ msgs[b][i].content = msgs[a][k].content
                    /\ msgs[b][j].content = msgs[a][l].content
                    /\ msgs[b][i].mirrored_from = a
                    /\ msgs[b][j].mirrored_from = a

C8_Witness ==
    \E p \in Procs :
        /\ Returned(p) /\ rq[p].mirroredUser /\ rq[p].mirroredAssistant
        /\ rq[p].sid = "A"
        /\ RowsBy("B", rq[p].id, "assistant") # {}

\* ------------------------------------------------------------------
\* C9: a failed mirror step (lookup, index query, insert, touch) leaves the
\* primary outcome as it is when the mirror steps succeed: the call returns
\* the reply of the completion service and the primary session holds the
\* user row and the assistant row of the turn.
\* ------------------------------------------------------------------
C9_MirrorFailureSwallowed ==
    \A p \in Procs :
        (Ended(p) /\ rq[p].mirrorFault) =>
            /\ rq[p].status = "ok"
            /\ rq[p].response = rq[p].aiResponse
            /\ (~rq[p].insertFault /\ rq[p].aiResponse # Empty) =>
                 LET s == rq[p].sid
                     pu == RowsBy(s, rq[p].id, "user")
                     pa == RowsBy(s, rq[p].id, "assistant")
                 IN /\ Cardinality(pu) = 1 /\ Cardinality(pa) = 1
                    /\ \A k \in pu, l \in pa :
                         /\ k < l
                         /\ msgs[s][k].content = rq[p].userText
                         /\ msgs[s][l].content = rq[p].aiResponse
                         /\ msgs[s][k].mirrored_from = NoSession
                         /\ msgs[s][l].mirrored_from = NoSession

C9_Witness ==
    \E p \in Procs :
        /\ Returned(p) /\ rq[p].mirrorFault /\ rq[p].status = "ok"
        /\ rq[p].response # Empty
        /\ RowsBy(rq[p].sid, rq[p].id, "assistant") # {}
\* the session does not exist or is not owned by the caller
Denied(s, u) == s \notin Sessions \/ SessionOwner[s] # u

\* ------------------------------------------------------------------
\* C2: a call that repeats, within the idempotency TTL and with no other
\* turn on the session in between, the raw text of a call that completed
\* makes no completion call, persists no message, and returns the reply of
\* that first call.
\* ------------------------------------------------------------------
C2_DuplicateWithinTTL ==
    \A p \in Procs :
        rq[p].dupOf # 0 =>
            /\ pc[p] \notin {"attempt", "emergency", "strict", "strictest", "persist"}
            /\ RowsBy(rq[p].sid, rq[p].id, "user") = {}
            /\ RowsBy(rq[p].sid, rq[p].id, "assistant") = {}
            /\ Returned(p) => rq[p].response = rq[p].dupReply

\* ------------------------------------------------------------------
\* C3: when two calls with the same raw text on the same session overlap
\* (the second starts, within the TTL, before the first has persisted),
\* exactly one user/assistant pair is persisted for them and both return
\* the same reply text.
\* ------------------------------------------------------------------
C3_OverlappingCalls ==
    \A p, q \in Procs :
        (rq[q].overlapOf # 0 /\ rq[q].overlapOf = rq[p].id /\ Returned(p) /\ Returned(q)) =>
            /\ rq[p].response = rq[q].response
            /\ Cardinality(RowsBy(rq[p].sid, rq[p].id, "user")
                             \cup RowsBy(rq[q].sid, rq[q].id, "user")) = 1
            /\ Cardinality(RowsBy(rq[p].sid, rq[p].id, "assistant")
                             \cup RowsBy(rq[q].sid, rq[q].id, "assistant")) = 1

\* ------------------------------------------------------------------
\* C4: no persisted assistant message has the same whitespace-normalized
\* content as the assistant message persisted just before it in the
\* session, whichever step produced it.
\* ------------------------------------------------------------------
C4_NoRepeatedAssistantMessage ==
    \A s \in Sessions : \A i, j \in 1..Len(msgs[s]) :
        (/\ i < j
         /\ IsAssistant(msgs[s][i].role) /\ IsAssistant(msgs[s][j].role)
         /\ \A k \in (i + 1)..(j - 1) : ~IsAssistant(msgs[s][k].role))
            => Normalize(msgs[s][i].content) # Normalize(msgs[s][j].content)

\* ------------------------------------------------------------------
\* C6: a call for a session that does not exist or is not owned by the
\* caller fails with 'Session not found or access denied' and changes
\* nothing: it sets no idempotency key, makes no completion call, inserts no
\* message in any session and touches no session's updated_at.
\* ------------------------------------------------------------------
C6_DeniedChangesNothing ==
    \A p \in Procs :
        (rq[p].id # 0 /\ Denied(rq[p].sid, rq[p].uid)) =>
            /\ pc[p] = "failed"
            /\ rq[p].status = "error"
            /\ rq[p].error = "Session not found or access denied"
            /\ rq[p].calls = 0
            /\ \A k \in idem : k.by # rq[p].id
            /\ \A s \in Sessions :
                  /\ \A i \in 1..Len(msgs[s]) : msgs[s][i].req # rq[p].id
                  /\ rq[p].id \notin touched[s]

C6_Witness ==
    \E p, q \in Procs :
        /\ pc[p] = "failed" /\ Denied(rq[p].sid, rq[p].uid)
        /\ rq[p].error = "Session not found or access denied"
        /\ Returned(q) /\ rq[q].id < rq[p].id
        /\ RowsBy(rq[q].sid, rq[q].id, "assistant") # {}
        /\ idem # {}

\* ------------------------------------------------------------------
\* C10: when the three attempts of the retry loop all end without an
\* accepted candidate, the emergency completion call follows: the call
\* never fails on exhaustion without it.
\* ------------------------------------------------------------------
C10_EmergencyOnExhaustion ==
    [][\A p \in Procs :
          (/\ pc[p] = "attempt" /\ rq[p].attempt = maxAttempts - 1
           /\ pc'[p] \notin {"attempt", "strict", "persist"})
              => pc'[p] = "emergency"]_vars

\* C10 as the code has it: the emergency call is made, once, exactly when
\* the third attempt returned a candidate that the validator rejected; a
\* third attempt that throws or returns no text fails the call at once
\* with RateLimitError, without an emergency call.
C10_EmergencyAfterRejection ==
    [][\A p \in Procs :
          /\ (/\ pc[p] = "attempt" /\ rq[p].attempt = maxAttempts - 1
              /\ pc'[p] \notin {"attempt", "strict", "persist"})
                => \/ /\ rq'[p].lastCall = "text"
                      /\ pc'[p] = "emergency"
                      /\ rq'[p].loopEnd = "rejected" /\ rq'[p].emergencyCalls = 0
                   \/ /\ rq'[p].lastCall = "failed"
                      /\ pc'[p] = "failed"
                      /\ rq'[p].error = "RateLimitError"
          /\ (pc'[p] = "emergency" /\ pc[p] # "emergency")
                => (pc[p] = "attempt" /\ rq[p].attempt = maxAttempts - 1)
          /\ (pc[p] = "emergency" /\ pc'[p] # "emergency")
                => \/ pc'[p] \in {"strict", "persist"} /\ rq'[p].emergencyCalls = 1
                   \/ pc'[p] = "failed" /\ rq'[p].error = "Empty AI response from model"
          /\ (pc[p] # "emergency" /\ pc'[p] \notin {"done", "failed"} /\ rq'[p].id = rq[p].id)
                => rq'[p].emergencyCalls = rq[p].emergencyCalls]_vars

C10_Witness ==
    \E p \in Procs :
        /\ pc[p] \in {"strict", "persist"}
        /\ rq[p].loopEnd = "rejected"
        /\ rq[p].emergencyCalls = 1
        /\ rq[p].calls = maxAttempts + 1

\* ------------------------------------------------------------------
\* C11: every call terminates, and before it does it has issued at most 3
\* validated attempts, 1 emergency call and 2 format re-prompts, 6
\* completion calls in all, one after the other.
\* ------------------------------------------------------------------
CallBudget(p) ==
    /\ rq[p].emergencyCalls <= 1
    /\ rq[p].calls <= maxAttempts + 1 + 2
    /\ pc[p] = "attempt" => (rq[p].attempt < maxAttempts /\ rq[p].calls = rq[p].attempt)
    /\ pc[p] = "emergency" => (rq[p].calls = maxAttempts /\ rq[p].emergencyCalls = 0)
    /\ pc[p] = "strict" => rq[p].calls <= maxAttempts + 1
    /\ pc[p] = "strictest" => rq[p].calls <= maxAttempts + 2

C12_AllCallsFail ==
    [][\A p \in Procs :
          rq'[p].allFailed =>
              /\ pc'[p] # "failed" =>
                    /\ pc'[p] = "attempt"
                    /\ rq'[p].calls = rq'[p].attempt
                    /\ rq'[p].calls < maxAttempts
              /\ (pc'[p] = "failed" /\ pc[p] # "failed") =>
                    /\ pc[p] = "attempt"
                    /\ rq[p].calls = maxAttempts - 1
              /\ pc'[p] = "failed" => rq'[p].error = "RateLimitError"
              /\ \A s \in Sessions : \A i \in 1..Len(msgs'[s]) :
                    msgs'[s][i].req # rq'[p].id]_vars

C12_Witness ==
    \E p \in Procs :
        /\ pc[p] = "failed"
        /\ rq[p].allFailed
        /\ rq[p].error = "RateLimitError"

\* ------------------------------------------------------------------
\* C13: a validator rejection alone never fails the request: a call fails
\* only at getSession, at a completion call that threw or returned no
\* text, or at the save; a step whose completion call returned text never
\* ends the call in failure.
\* ------------------------------------------------------------------
C13_RejectionNeverFails ==
    [][\A p \in Procs :
          (pc'[p] = "failed" /\ (pc[p] # "failed" \/ rq'[p].id # rq[p].id)) =>
              \/ Denied(rq'[p].sid, rq'[p].uid)
              \/ /\ pc[p] \in {"attempt", "emergency", "strict", "strictest"}
                 /\ rq'[p].lastCall = "failed"
              \/ /\ pc[p] = "persist"
                 /\ rq'[p].insertFault]_vars

C13_Witness ==
    \E p \in Procs :
        /\ pc[p] = "persist"
        /\ rq[p].loopEnd = "rejected"
        /\ rq[p].lastCall = "text"
        /\ faults = 0

\* ------------------------------------------------------------------
\* C14: on the free plan every persisted assistant message has 3 or 4
\* sentences, 40 to 90 words and no line break or list marker, and a first
\* accepted candidate that breaks the format is followed by a strict
\* re-prompt before anything is persisted.
\* ------------------------------------------------------------------
C14_FreePlanFormat ==
    /\ [](\A s \in Sessions : \A i \in 1..Len(msgs[s]) :
            (/\ msgs[s][i].req # 0
             /\ IsAssistant(msgs[s][i].role)
             /\ ~isPaidPlan(UserPlan[SessionOwner[s]]))
                => ~FormatViolated(msgs[s][i].content))
    /\ [][\A p \in Procs :
            (/\ pc[p] \in {"attempt", "emergency"}
             /\ pc'[p] \notin {"attempt", "emergency", "failed"}
             /\ ~isPaidPlan(rq'[p].plan)
             /\ FormatViolated(rq'[p].aiResponse))
                => pc'[p] = "strict"]_vars

\* ------------------------------------------------------------------
\* C15: with NSFW enabled and fewer than 8 user turns in the session,
\* whatever the user text, every candidate the retry loop accepts has at
\* least 2 sentences and the persisted assistant message is not empty.
\* ------------------------------------------------------------------
C15_EarlyPhaseTwoSentences ==
    /\ [](nsfw => \A s \in Sessions : \A i \in 1..Len(msgs[s]) :
            (msgs[s][i].req # 0 /\ IsAssistant(msgs[s][i].role))
                => msgs[s][i].content # Empty)
    /\ [][\A p \in Procs :
            (/\ nsfw
             /\ pc[p] = "attempt"
             /\ rq[p].userTurns < minTurnsForExplicit
             /\ rq'[p].loopEnd = "accepted")
                => SentenceCount(rq'[p].aiResponse) >= 2]_vars

\* ------------------------------------------------------------------
\* C18: the user message and the assistant message a turn persists carry
\* consecutive order_index values (m+1 and m+2), and so do the two messages
\* the turn writes into the mirror session, under any interleaving of
\* turns.
\* ------------------------------------------------------------------
C18_TurnIndicesConsecutive ==
    \A p \in Procs :
        (Ended(p) /\ rq[p].sid \in Sessions) =>
            \A s \in Sessions :
                \A i \in RowsBy(s, rq[p].id, "user"), j \in RowsBy(s, rq[p].id, "assistant") :
                    /\ msgs[s][i].order_index # NULL
                    /\ msgs[s][j].order_index = msgs[s][i].order_index + 1

\* ------------------------------------------------------------------
\* C16: at every moment at most 5 completion calls submitted through
\* enqueueRequest are in flight for one user and at most 100 across all
\* users; a request beyond these limits waits in a queue.
\* ------------------------------------------------------------------
C16_InFlightLimits ==
    /\ \A u \in Users : InFlight(uq, u) <= userConcurrency
    /\ TotalInFlight(uq) <= globalConcurrency

\* ------------------------------------------------------------------
\* C17: a request of a user who has fewer than 5 completions in flight,
\* submitted while fewer than 100 are in flight globally, does not wait:
\* the requests another user has waiting behind that user's own limit
\* cannot hold it back.
\* ------------------------------------------------------------------
C17_NoCrossUserBlocking ==
    \A u \in Users :
        (InFlight(uq, u) < userConcurrency /\ TotalInFlight(uq) < globalConcurrency)
            => /\ \A i \in 1..Len(gq) : gq[i] # u
               /\ uq[u].waiting = 0

\* positions of a directive in a message list
Pos(l, labels) == {i \in 1..Len(l) : l[i].role = "system" /\ l[i].content \in labels}

\* ------------------------------------------------------------------
\* C19: in every message list sent to the completion service the
\* length-policy directive is the first directive after the persona system
\* message, the direct-answer and topic directives precede the safety,
\* pacing and flirt directives, and the depth directive follows all of
\* those.
\* ------------------------------------------------------------------
C19_DirectiveOrder ==
    sent # << >> =>
        /\ Len(sent) >= 2 /\ sent[2] = Directive("LENGTH POLICY")
        /\ \A i \in Pos(sent, {"DIRECT ANSWER", "TOPIC FOCUS"}) :
             \A j \in Pos(sent, {"Safety Policy", "PACING", "ON-TOPIC"}) : i < j
        /\ \A i \in Pos(sent, {"DEPTH"}) :
             \A j \in Pos(sent, {"LENGTH POLICY", "DIRECT ANSWER", "TOPIC FOCUS",
                                 "Safety Policy", "PACING", "ON-TOPIC"}) : j < i

\* ------------------------------------------------------------------
\* messageBuilder.js lines 10-16, 170-258: the history buildMessagesForSession
\* loads for a session.  NSFW is off in these sessions, so every row has
\* is_nsfw = false and the filter of lines 213-215 keeps them all.
\* ------------------------------------------------------------------
historyLimit == 10
historyCharBudget == 3500

\* order by order_index desc nulls last, created_at desc, id desc: row i
\* of the session comes before row j
QueryBefore(s, i, j) ==
    LET a == msgs[s][i].order_index
        b == msgs[s][j].order_index
    IN IF a = b THEN i > j
       ELSE a # NULL /\ (b = NULL \/ a > b)

\* lines 172-180: the rows the query returns, most recent first, as
\* positions in the session
historyRows(s) ==
    LET n == Len(msgs[s])
        rank(i) == Cardinality({j \in 1..n : QueryBefore(s, j, i)})
    IN [k \in 1..Min(n, historyLimit) |-> CHOOSE i \in 1..n : rank(i) = k - 1]

\* lines 184-185: content: String(r.content || '').slice(0, 800)
mappedLength(s, i) == Slice(msgs[s][i].content, 800).len

\* lines 238-246: walk from the most recent row and stop at the first one
\* that does not fit the budget; the number of rows selected
RECURSIVE selected(_, _, _, _)
selected(s, rows, k, total) ==
    IF k > Len(rows) THEN k - 1
    ELSE LET c == mappedLength(s, rows[k])
         IN IF total + c > historyCharBudget THEN k - 1
            ELSE selected(s, rows, k + 1, total + c)

\* line 247: historyMsgs = selectedReversed.reverse()
historyMsgs(s) ==
    LET rows == historyRows(s)
        n == selected(s, rows, 1, 0)
    IN [k \in 1..n |-> rows[n - k + 1]]

\* lines 250-258: the list returned for a user text; a message is its role
\* and the length of its content
buildMessagesForSession(s, userText) ==
    LET h == historyMsgs(s)
    IN << [role |-> "system", len |-> 0] >>
       \o [k \in 1..Len(h) |->
             [role |-> IF msgs[s][h[k]].role = "assistant" THEN "assistant" ELSE "user",
              len |-> mappedLength(s, h[k])]]
       \o << [role |-> "user", len |-> Slice(userText, 2000).len] >>

\* ------------------------------------------------------------------
\* C20: the history buildMessagesForSession puts into the prompt has at
\* most 10 messages and at most 3500 characters, runs from oldest to newest,
\* and is a contiguous run of the session ending at its most recent
\* message; the current user turn is the last message of the list and has
\* at most 2000 characters.
\* ------------------------------------------------------------------
C20_HistoryWindow ==
    \A s \in Sessions : \A t \in MirrorTexts :
        LET h == historyMsgs(s)
            l == buildMessagesForSession(s, t)
            n == Len(msgs[s])
        IN /\ Len(h) <= historyLimit
           /\ SumOver(1..Len(h), [k \in 1..Len(h) |-> mappedLength(s, h[k])])
                 <= historyCharBudget
           /\ \A k \in 1..Len(h) : h[k] = n - Len(h) + k
           /\ Len(l) = Len(h) + 2
           /\ l[Len(l)].role = "user" /\ l[Len(l)].len <= 2000

\* ------------------------------------------------------------------
\* C24: redisClient.set is a set-if-absent: a set call made while the
\* client is connected, on a key that an earlier call set and that has not
\* expired, returns false (setOk of sendMessage is false).
\* ------------------------------------------------------------------
KeyHeld(r) == \E k \in idem : k.key = <<r.sid, r.userText>>

C24_SetIfAbsent ==
    [][\A p \in Procs :
          (/\ pc[p] = "idempotency"
           /\ pc'[p] = "attempt"
           /\ isConnected
           /\ KeyHeld(rq[p])
           /\ faults' = faults)
          => ~rq'[p].setOk]_vars

\* ------------------------------------------------------------------
\* C26: a call whose session ends, when it is read, with a user row whose
\* trimmed content is the trimmed incoming text followed by an assistant
\* row returns the content of that assistant row in the same step: no
\* completion call, no idempotency key, no row written, whether or not the
\* idempotency window of the earlier turn is still open.
\* ------------------------------------------------------------------
\* the step is p's entry into sendMessage on a session it may use
Enters(p) == Finished(p) /\ nreq' = nreq + 1 /\ rq'[p].id = nreq + 1 /\ rq'[p].error = "none"

EndsWithAnsweredText(s, t) ==
    LET n == Len(msgs[s])
    IN /\ n >= 2
       /\ msgs[s][n - 1].role = "user"
       /\ Trim(msgs[s][n - 1].content) = Trim(t)
       /\ msgs[s][n].role = "assistant"

ShortCircuits(p) ==
    LET s == rq'[p].sid
    IN /\ pc'[p] = "done"
       /\ rq'[p].status = "ok"
       /\ rq'[p].response = msgs[s][Len(msgs[s])].content
       /\ msgs' = msgs
       /\ idem' = idem

C27_ReplyBelongsToText ==
    \A p \in Procs :
        Returned(p) =>
            \E q \in 1..MaxRequests :
                /\ \E i \in RowsBy(rq[p].sid, q, "user") :
                       Trim(msgs[rq[p].sid][i].content) = Trim(Slice(rq[p].userText, 1000))
                /\ \E j \in RowsBy(rq[p].sid, q, "assistant") :
                       msgs[rq[p].sid][j].content = Slice(rq[p].response, 1000)

\* ------------------------------------------------------------------
\* C28: the reply a call returns is the content of the assistant row it
\* persisted, and the user row it persisted is the submitted text cut to
\* 2000 characters.
\* ------------------------------------------------------------------
C28_ReturnedEqualsPersisted ==
    \A p \in Procs :
        Returned(p) =>
            /\ \A j \in RowsBy(rq[p].sid, rq[p].id, "assistant") :
                   msgs[rq[p].sid][j].content = rq[p].response
            /\ \A i \in RowsBy(rq[p].sid, rq[p].id, "user") :
                   msgs[rq[p].sid][i].content = Slice(rq[p].text, 2000)

\* ------------------------------------------------------------------
\* C23: a step of a sendMessage turn on session A appends rows only to A
\* and to the session A's marker names, sets updated_at only of those two,
\* removes no row and no session, and leaves the character as it is; every
\* other session keeps its rows and its updated_at.
\* ------------------------------------------------------------------
\* the sessions a turn on s may write to: s and the session its marker names
TurnSessions(s) ==
    IF s \in Sessions
    THEN {s} \cup {m \in Sessions :
                     \E i \in 1..Len(msgs[s]) :
                        msgs[s][i].role = "system" /\ ParseMirrorLink(msgs[s][i].content) = m}
    ELSE {}

IsPrefix(a, b) == Len(a) <= Len(b) /\ \A i \in 1..Len(a) : b[i] = a[i]

C23_TurnFrame ==
    [][\A p \in Procs :
          (pc'[p] # pc[p] \/ rq'[p] # rq[p]) =>
             /\ \A x \in Sessions :
                   /\ IsPrefix(msgs[x], msgs'[x])
                   /\ x \notin TurnSessions(rq'[p].sid) =>
                         (msgs'[x] = msgs[x] /\ touched'[x] = touched[x])
             /\ deleted' = deleted
             /\ nsfw' = nsfw]_vars

\* a turn on A that wrote both rows to A and to B and touched both, with C
\* as it was
C23_Witness ==
    \E p \in Procs :
        /\ Returned(p)
        /\ rq[p].sid = "A"
        /\ rq[p].savedUser /\ rq[p].savedAssistant
        /\ rq[p].mirroredUser /\ rq[p].mirroredAssistant
        /\ rq[p].id \in touched["A"] \cap touched["B"]
        /\ msgs["C"] = << >> /\ touched["C"] = {}

\* ------------------------------------------------------------------
\* C25: a row is in the mirror session only when the user row and the
\* assistant row of the same turn are in the primary session.
\* ------------------------------------------------------------------
C25_MirrorAfterPrimaryPair ==
    \A s \in Sessions : \A i \in 1..Len(msgs[s]) :
        msgs[s][i].mirrored_from # NoSession =>
            /\ RowsBy(msgs[s][i].mirrored_from, msgs[s][i].req, "user") # {}
            /\ RowsBy(msgs[s][i].mirrored_from, msgs[s][i].req, "assistant") # {}

\* ------------------------------------------------------------------
\* C30: every history message of the list buildMessagesForSession returns
\* comes from a row persisted with role user or assistant and carries the
\* role of that row; no system row is in the list as a user or assistant
\* message.
\* ------------------------------------------------------------------
C30_HistoryRoles ==
    \A s \in Sessions : \A t \in MirrorTexts :
        LET h == historyMsgs(s)
            l == buildMessagesForSession(s, t)
        IN \A k \in 1..Len(h) :
              /\ msgs[s][h[k]].role \in {"user", "assistant"}
              /\ l[k + 1].role = msgs[s][h[k]].role

\* ------------------------------------------------------------------
\* C21: chatCompletion calls the preferred model first and then the
\* fallback models, each once, in the order of the list; it goes on to the
\* next model only after a model-unavailable error; any other error is
\* thrown at once, and when every candidate was unavailable the last error
\* is thrown.
\* ------------------------------------------------------------------
\* position of the first occurrence of model m in the fallback list
FirstAt(m) == CHOOSE i \in 1..Len(fb.fallbacks) :
                  fb.fallbacks[i] = m /\ \A j \in 1..(i - 1) : fb.fallbacks[j] # m

NamesMirror(a, b) ==
    \E i \in 1..Len(msgs[a]) :
        msgs[a][i].role = "system" /\ ParseMirrorLink(msgs[a][i].content) = b

C22_MirrorLinksReciprocal ==
    \A a, b \in Sessions \ deleted : NamesMirror(a, b) <=> NamesMirror(b, a)

\* ------------------------------------------------------------------
\* C29: a deleteSession(S, U) call by a user who does not own S leaves the
\* row of S and every message of S as they were.
\* ------------------------------------------------------------------
C29_DeleteByNonOwner ==
    [][(/\ life'.calls = life.calls + 1
        /\ life'.op = "deleteSession"
        /\ life'.sid \in Sessions \ deleted
        /\ SessionOwner[life'.sid] # life'.uid)
       => (msgs' = msgs /\ deleted' = deleted)]_vars

====
